---------------------------- MODULE Spec2Model ----------------------------
(***************************************************************************)
(* Model of the workshop sketches' cooperative polling loops.              *)
(*                                                                         *)
(* Each variable holds the globals of one sketch (p4: phase 4 security,    *)
(* p5: phase 5 complete system, p6: phase 6 advanced system, p1: LED       *)
(* blink, p2: button and buzzer, p3: sensor dashboard, pa: proximity       *)
(* alarm), or "off".  Every C++ function is an operator from the           *)
(* sketch's state (a record of its globals) to the state it leaves; one    *)
(* action is one call of loop().  millis() is the field `now`; delay(ms)   *)
(* advances it.  Strings are sequences of one-character strings.           *)
(***************************************************************************)
EXTENDS Integers, Sequences, FiniteSets, TLC

VARIABLES p1, p2, p3, p4, p5, p6, pa

vars == <<p1, p2, p3, p4, p5, p6, pa>>

(***************************************************************************)
(* Bounds of the model                                                     *)
(***************************************************************************)
\* loop() is not scheduled later than this many ms after boot (phase 4 Spec)
MaxTime == 125000

\* unsigned long is 32 bits wide on the board; the model keeps the modular
\* arithmetic on a narrower word
ULONG_BITS == 20

ClockMod == 2 ^ ULONG_BITS

\* mutant: the difference is not reduced to the width of unsigned long
ULSub_NoWrap(a, b) == a - b

\* a - b on unsigned long
ULSub(a, b) == (a - b + ClockMod) % ClockMod

(***************************************************************************)
(* Program constants (phase 4 and phase 6 define the same values)          *)
(***************************************************************************)
STARTUP_BLINK_COUNT == 3
STARTUP_BLINK_DURATION == 200
LCD_INIT_DELAY == 3000
DISPLAY_ROTATION_INTERVAL == 3000
SENSOR_READ_INTERVAL == 1000
KEYPAD_TIMEOUT == 10000
INACTIVITY_TIMEOUT == 60000
LOCKOUT_DURATION == 30000
DISTANCE_ALERT_THRESHOLD == 20
WATER_ALERT_THRESHOLD == 500
TEMP_HIGH_THRESHOLD == 30
TEMP_LOW_THRESHOLD == 10
HUMIDITY_ALERT_THRESHOLD == 80
MAX_PASSCODE_LENGTH == 6
MAX_FAILED_ATTEMPTS == 3

DEFAULT_PASSCODE == <<"1", "2", "3", "4", "*">>

\* keypad.getKey() returns NO_KEY when no key is pressed
NoKey == "none"

\* the keys of the 4x4 matrix the model presses
Keys == {"1", "2", "3", "4", "#", "*"}

\* time that passes between the end of one loop() call and the next
Elapsed == {0, KEYPAD_TIMEOUT}

\* what the sensors return when they are read: DHT11 (nan: the read failed
\* and both values are NaN), HC-SR04 distance in cm (999 = invalid), analog
\* water level
SensorInputs ==
  { [nan |-> FALSE, temp |-> 25, hum |-> 50, dist |-> 100, water |-> 0],
    [nan |-> FALSE, temp |-> 35, hum |-> 90, dist |-> 10, water |-> 600],
    [nan |-> TRUE, temp |-> 0, hum |-> 0, dist |-> 999, water |-> 0] }

(***************************************************************************)
(* Phase 4: helpers                                                        *)
(***************************************************************************)
delay(st, ms) == [st EXCEPT !.now = (@ + ms) % ClockMod]

\* mutant: the entry is not emptied
clearEntry_Keeps(st) == st

clearEntry(st) == [st EXCEPT !.enteredPasscode = <<>>]

(***************************************************************************)
(* Phase 4: sensor dashboard                                               *)
(***************************************************************************)
readAllSensors(st, sens) ==
  LET s1 == IF ~sens.nan
            THEN [st EXCEPT !.temperature = sens.temp, !.humidity = sens.hum]
            ELSE st
  IN [s1 EXCEPT !.distance = sens.dist,
                !.waterLevel = sens.water,
                !.sensorDataValid = TRUE]

checkAlertConditions(st) ==
  LET d == st.distance < DISTANCE_ALERT_THRESHOLD /\ st.distance > 0
      w == st.waterLevel > WATER_ALERT_THRESHOLD
      t == st.temperature > TEMP_HIGH_THRESHOLD \/ st.temperature < TEMP_LOW_THRESHOLD
      h == st.humidity > HUMIDITY_ALERT_THRESHOLD
  IN [st EXCEPT !.distanceAlert = d, !.waterAlert = w,
                !.temperatureAlert = t, !.humidityAlert = h,
                !.anyAlert = d \/ w \/ t \/ h]

updateStatusLEDs(st) ==
  IF st.anyAlert
  THEN [st EXCEPT !.greenLED = FALSE, !.redLED = TRUE]
  ELSE [st EXCEPT !.redLED = FALSE, !.greenLED = TRUE]

updateLCDDisplay(st) ==
  IF ~st.lcdInitialized \/ ~st.sensorDataValid
  THEN st
  ELSE [st EXCEPT !.currentDisplayScreen = (@ + 1) % 3]

handleSensorDashboard(st, sens) ==
  LET currentTime == st.now
      s0 == [st EXCEPT !.dashboardRan = TRUE]
      s1 == IF ULSub(currentTime, s0.lastSensorRead) >= SENSOR_READ_INTERVAL
            THEN [updateStatusLEDs(checkAlertConditions(readAllSensors(s0, sens)))
                    EXCEPT !.lastSensorRead = currentTime]
            ELSE s0
  IN IF ULSub(currentTime, s1.lastDisplayUpdate) >= DISPLAY_ROTATION_INTERVAL
     THEN [updateLCDDisplay(s1) EXCEPT !.lastDisplayUpdate = currentTime]
     ELSE s1

(***************************************************************************)
(* Phase 4: security state machine                                         *)
(***************************************************************************)
grantAccess(st) ==
  LET s1 == [st EXCEPT !.systemUnlocked = TRUE, !.failedAttempts = 0,
                       !.redLED = FALSE, !.greenLED = TRUE]
      s2 == [delay(s1, 1000) EXCEPT !.greenLED = FALSE]
      s3 == IF s2.lcdInitialized THEN delay(s2, 2000) ELSE s2
  IN [s3 EXCEPT !.lastSystemActivity = s3.now]

lockoutSystem(st) ==
  [st EXCEPT !.systemLockedOut = TRUE, !.lockoutStartTime = st.now,
             !.greenLED = FALSE, !.redLED = TRUE]

denyAccess(st) ==
  LET s1 == [st EXCEPT !.failedAttempts = @ + 1]
      \* three times: green off, red on, 200 ms, red off, 200 ms
      s2 == [delay(s1, 3 * (200 + 200)) EXCEPT !.greenLED = FALSE, !.redLED = FALSE]
      s3 == IF s2.lcdInitialized THEN delay(s2, 2000) ELSE s2
  IN IF s3.failedAttempts >= MAX_FAILED_ATTEMPTS THEN lockoutSystem(s3) ELSE s3

\* mutant: the entry is kept after the check
checkPasscode_NoClear(st) ==
  IF st.enteredPasscode = DEFAULT_PASSCODE
  THEN grantAccess(st)
  ELSE denyAccess(st)

checkPasscode(st) ==
  clearEntry(IF st.enteredPasscode = DEFAULT_PASSCODE
             THEN grantAccess(st)
             ELSE denyAccess(st))

\* mutant: keys are processed during lockout too
handleKeypadInput_NoLockoutCheck(st, k) ==
  LET s0 == [st EXCEPT !.key = k]
      s1 == IF k # NoKey
            THEN [s0 EXCEPT !.lastKeypadActivity = s0.now,
                            !.lastSystemActivity = s0.now]
            ELSE s0
      s2 == IF k = NoKey THEN s1
            ELSE IF k = "#" THEN clearEntry(s1)
            ELSE IF k = "*" THEN checkPasscode(s1)
            ELSE IF Len(s1.enteredPasscode) < MAX_PASSCODE_LENGTH - 1
                 THEN [s1 EXCEPT !.enteredPasscode = Append(@, k)]
                 ELSE s1
  IN IF s2.enteredPasscode # <<>>
        /\ ULSub(s2.now, s2.lastKeypadActivity) > KEYPAD_TIMEOUT
     THEN clearEntry(s2)
     ELSE s2

handleKeypadInput(st, k) ==
  LET s0 == [st EXCEPT !.key = k]
      s1 == IF k # NoKey
            THEN [s0 EXCEPT !.lastKeypadActivity = s0.now,
                            !.lastSystemActivity = s0.now]
            ELSE s0
      autoClear(s) ==
        IF s.enteredPasscode # <<>>
           /\ ULSub(s.now, s.lastKeypadActivity) > KEYPAD_TIMEOUT
        THEN clearEntry(s)
        ELSE s
  IN IF k # NoKey /\ s1.systemLockedOut
     THEN s1        \* return: input ignored during lockout
     ELSE autoClear(
            IF k = NoKey THEN s1
            ELSE IF k = "#" THEN clearEntry(s1)
            ELSE IF k = "*" THEN checkPasscode(s1)
            ELSE IF Len(s1.enteredPasscode) < MAX_PASSCODE_LENGTH - 1
                 THEN [s1 EXCEPT !.enteredPasscode = Append(@, k)]
                 ELSE s1)

\* mutant: the lockout is timed with the keypad timeout
handleLockout_Short(st) ==
  LET currentTime == st.now
  IN IF ULSub(currentTime, st.lockoutStartTime) >= KEYPAD_TIMEOUT
     THEN LET s1 == [st EXCEPT !.systemLockedOut = FALSE, !.failedAttempts = 0,
                               !.redLED = FALSE]
          IN IF s1.lcdInitialized THEN delay(s1, 2000) ELSE s1
     ELSE st

handleLockout(st) ==
  LET currentTime == st.now
  IN IF ULSub(currentTime, st.lockoutStartTime) >= LOCKOUT_DURATION
     THEN LET s1 == [st EXCEPT !.systemLockedOut = FALSE, !.failedAttempts = 0,
                               !.redLED = FALSE]
          IN IF s1.lcdInitialized THEN delay(s1, 2000) ELSE s1
     ELSE st

lockSystem(st) ==
  LET s1 == [clearEntry([st EXCEPT !.systemUnlocked = FALSE])
               EXCEPT !.greenLED = FALSE, !.redLED = FALSE]
  IN IF s1.lcdInitialized THEN delay(s1, 2000) ELSE s1

\* mutant: the dashboard is not gated by the lock
handleSecuritySystem_NoGate(st, k, sens) ==
  LET currentTime == st.now
      s1 == handleKeypadInput([st EXCEPT !.currentTime = currentTime], k)
  IN IF s1.systemLockedOut THEN handleLockout(s1)
     ELSE IF s1.systemUnlocked
             /\ ULSub(currentTime, s1.lastSystemActivity) > INACTIVITY_TIMEOUT
          THEN lockSystem(s1)
     ELSE handleSensorDashboard(s1, sens)

handleSecuritySystem(st, k, sens) ==
  LET currentTime == st.now
      s1 == handleKeypadInput([st EXCEPT !.currentTime = currentTime], k)
  IN IF s1.systemLockedOut THEN handleLockout(s1)
     ELSE IF s1.systemUnlocked
             /\ ULSub(currentTime, s1.lastSystemActivity) > INACTIVITY_TIMEOUT
          THEN lockSystem(s1)
     ELSE IF s1.systemUnlocked THEN handleSensorDashboard(s1, sens)
     ELSE s1       \* displayPasscodeEntry: LCD output only

(***************************************************************************)
(* Phase 4: startup sequences and loop()                                   *)
(***************************************************************************)
blinkStartup(st) ==
  LET currentTime == st.now
  IN IF ULSub(currentTime, st.lastStartupBlink) >= STARTUP_BLINK_DURATION
     THEN [(IF st.startupBlinkCount < STARTUP_BLINK_COUNT * 2
            THEN [st EXCEPT !.greenLED = (st.startupBlinkCount % 2 = 0),
                            !.redLED = (st.startupBlinkCount % 2 = 0),
                            !.startupBlinkCount = @ + 1]
            ELSE [st EXCEPT !.startupComplete = TRUE])
             EXCEPT !.lastStartupBlink = currentTime]
     ELSE st

handleLCDStartup(st) ==
  IF ULSub(st.now, st.lcdStartupTime) >= LCD_INIT_DELAY
  THEN [st EXCEPT !.lcdStartupComplete = TRUE]
  ELSE st

loop(st, dt, k, sens) ==
  LET s0 == [delay(st, dt) EXCEPT !.key = NoKey, !.dashboardRan = FALSE]
      s1 == IF ~s0.startupComplete
            THEN blinkStartup(s0)
            ELSE handleSecuritySystem(s0, k, sens)
  IN IF s1.lcdInitialized /\ ~s1.lcdStartupComplete
     THEN handleLCDStartup(s1)
     ELSE s1

\* the globals after setup(); initializeLCD() has blocked for 1000 ms
setup ==
  [ now |-> 1000,
    startupComplete |-> FALSE, startupBlinkCount |-> 0, lastStartupBlink |-> 1000,
    greenLED |-> FALSE, redLED |-> FALSE,
    lcdInitialized |-> TRUE, lcdStartupComplete |-> FALSE, lcdStartupTime |-> 1000,
    currentDisplayScreen |-> 0, lastDisplayUpdate |-> 1000,
    temperature |-> 0, humidity |-> 0, distance |-> 0, waterLevel |-> 0,
    sensorDataValid |-> FALSE,
    distanceAlert |-> FALSE, waterAlert |-> FALSE, temperatureAlert |-> FALSE,
    humidityAlert |-> FALSE, anyAlert |-> FALSE,
    lastSensorRead |-> 1000,
    systemUnlocked |-> FALSE, enteredPasscode |-> <<>>,
    lastKeypadActivity |-> 1000, lastSystemActivity |-> 1000,
    failedAttempts |-> 0, systemLockedOut |-> FALSE, lockoutStartTime |-> 0,
    \* observations of the last loop() call, not globals of the sketch
    key |-> NoKey, currentTime |-> 0, dashboardRan |-> FALSE ]

(***************************************************************************)
(* Specification of phase 4                                                *)
(***************************************************************************)
\* the phase 4 sketch runs on the board; the other sketches are "off"
Init ==
  /\ p4 = setup
  /\ p1 = "off" /\ p2 = "off" /\ p3 = "off" /\ p5 = "off" /\ p6 = "off" /\ pa = "off"

\* the sensors are sampled only in a loop() call that runs the dashboard
SensorsOf(st, dt, k) ==
  LET none == [nan |-> TRUE, temp |-> 0, hum |-> 0, dist |-> 999, water |-> 0]
  IN IF loop(st, dt, k, none).dashboardRan THEN SensorInputs ELSE {none}

\* one call of loop(), dt ms after the previous call returned, with key k
\* waiting in the keypad
LoopOf(keys, elapsed) ==
  \E dt \in elapsed, k \in keys \cup {NoKey} :
    \E sens \in SensorsOf(p4, dt, k) :
      /\ p4.now + dt <= MaxTime
      /\ p4' = loop(p4, dt, k, sens)
      /\ UNCHANGED <<p1, p2, p3, p5, p6, pa>>

Loop4 == LoopOf(Keys, Elapsed)

Next == Loop4

Spec == Init /\ [][Next]_vars

\* The same loop with fewer keys pressed, split into the calls that follow
\* at once and the calls before which time passes.  loop() is called again
\* and again and time passes between the calls: LoopAdvance is fair.
LiveKeys == {"1", "#", "*"}

LoopNow == LoopOf(LiveKeys, {0})

LoopAdvance == LoopOf(LiveKeys, Elapsed \ {0})

LiveNext == LoopNow \/ LoopAdvance

LiveSpec == Init /\ [][LiveNext]_vars /\ WF_vars(LoopAdvance)

(***************************************************************************)
(* Phase 6: constants, inputs, EEPROM                                      *)
(***************************************************************************)
CONFIG_PASSCODE == <<"9", "9", "9", "9", "*">>
AUTO_MOTOR_INTERVAL == 2000
SEVEN_SEG_UPDATE_INTERVAL == 1000
STEPS_PER_90_DEGREES == 1024
JOYSTICK_CENTER == 512
JOYSTICK_THRESHOLD == 200
EEPROM_DATA_START == 100
EEPROM_DATA_COUNT == 10
EEPROM_DATA_SIZE == 20

\* sizeof(struct SensorData) on the board: unsigned long, three floats, int
SENSOR_DATA_SIZE == 18

\* a float that is not a number (what EEPROM.get reads from erased cells)
NaNf == -32768

FLess(a, b) == a # NaNf /\ b # NaNf /\ a < b

\* the byte 0 and the erased byte 0xFF read as characters
NUL == "\\0"
ERASED == "\\xFF"

\* String::charAt: the i-th character (from 0), 0 past the end
charAt(str, i) == IF i < Len(str) THEN str[i + 1] ELSE NUL

\* the keys the model presses in phase 6
Keys6 == {"1", "9", "#", "*"}

\* joystick readings: centred, pushed down/right, pushed up/left; button
JoystickInputs ==
  { [x |-> 512, y |-> 512, btn |-> FALSE],
    [x |-> 512, y |-> 512, btn |-> TRUE],
    [x |-> 900, y |-> 900, btn |-> FALSE],
    [x |-> 100, y |-> 100, btn |-> FALSE] }

\* keys pressed while changePasscode() polls the keypad
TypedInputs == { <<>>, <<"1", "9", "1", "9", "*">>, <<"1", "*", "#", "9">> }

\* the sensor records in EEPROM, by the address they were put at: none
emptyLog == [a \in {} |-> <<>>]

\* EEPROM.put(address, data) of a sensor record
putRecord(log, address, data) ==
  [a \in DOMAIN log \cup {address} |-> IF a = address THEN data ELSE log[a]]

\* EEPROM contents at power-up: erased, zeroed, or the settings a previous
\* run of the sketch saved with its defaults
EepromImages ==
  { [dist |-> -1, water |-> -1, tHigh |-> NaNf, tLow |-> NaNf, hum |-> NaNf,
     motor |-> -1, pass |-> <<ERASED, ERASED, ERASED, ERASED, ERASED>>,
     log |-> emptyLog],
    [dist |-> 0, water |-> 0, tHigh |-> 0, tLow |-> 0, hum |-> 0,
     motor |-> 0, pass |-> <<NUL, NUL, NUL, NUL, NUL>>, log |-> emptyLog],
    [dist |-> 20, water |-> 500, tHigh |-> 30, tLow |-> 10, hum |-> 80,
     motor |-> 2000, pass |-> <<"1", "2", "3", "4", "*">>, log |-> emptyLog] }

(***************************************************************************)
(* Phase 6: settings in EEPROM                                             *)
(***************************************************************************)
saveSettings(st) ==
  [st EXCEPT !.eeprom =
     [@ EXCEPT !.dist = st.distanceAlertThreshold,
               !.water = st.waterAlertThreshold,
               !.tHigh = st.tempHighThreshold,
               !.tLow = st.tempLowThreshold,
               !.hum = st.humidityAlertThreshold,
               !.motor = st.motorInterval,
               !.pass = [i \in 1..5 |-> charAt(st.systemPasscode, i - 1)]]]

loadSettings(st) ==
  LET e == st.eeprom
      read == SelectSeq(e.pass, LAMBDA c : c # NUL) \o <<"*">>
  IN [st EXCEPT
        !.distanceAlertThreshold =
           IF e.dist < 1 \/ e.dist > 100 THEN DISTANCE_ALERT_THRESHOLD ELSE e.dist,
        !.waterAlertThreshold =
           IF e.water < 1 \/ e.water > 1023 THEN WATER_ALERT_THRESHOLD ELSE e.water,
        !.tempHighThreshold =
           IF FLess(e.tHigh, 0) \/ FLess(50, e.tHigh) THEN TEMP_HIGH_THRESHOLD ELSE e.tHigh,
        !.tempLowThreshold =
           IF FLess(e.tLow, -20) \/ FLess(30, e.tLow) THEN TEMP_LOW_THRESHOLD ELSE e.tLow,
        !.humidityAlertThreshold =
           IF FLess(e.hum, 0) \/ FLess(100, e.hum) THEN HUMIDITY_ALERT_THRESHOLD ELSE e.hum,
        !.motorInterval =
           IF e.motor < 500 \/ e.motor > 10000 THEN AUTO_MOTOR_INTERVAL ELSE e.motor,
        !.systemPasscode = IF Len(read) < 5 THEN DEFAULT_PASSCODE ELSE read]

\* mutant: the slot index wraps one slot too late
logSensorData_LateWrap(st) ==
  LET currentTime == st.now
      data == [timestamp |-> currentTime, temperature |-> st.temperature,
               humidity |-> st.humidity, distance |-> st.distance,
               waterLevel |-> st.waterLevel]
      address == EEPROM_DATA_START + (st.dataLogIndex * EEPROM_DATA_SIZE)
  IN IF ULSub(currentTime, st.lastDataLog) >= 5000
     THEN [st EXCEPT
             !.eeprom.log = putRecord(@, address, data),
             !.logged = Append(@, data),
             !.dataLogIndex = (@ + 1) % (EEPROM_DATA_COUNT + 1),
             !.lastDataLog = currentTime]
     ELSE st

\* the field logged lists the records put so far, oldest first
logSensorData(st) ==
  LET currentTime == st.now
      data == [timestamp |-> currentTime, temperature |-> st.temperature,
               humidity |-> st.humidity, distance |-> st.distance,
               waterLevel |-> st.waterLevel]
      address == EEPROM_DATA_START + (st.dataLogIndex * EEPROM_DATA_SIZE)
  IN IF ULSub(currentTime, st.lastDataLog) >= 5000
     THEN [st EXCEPT
             !.eeprom.log = putRecord(@, address, data),
             !.logged = Append(@, data),
             !.dataLogIndex = (@ + 1) % EEPROM_DATA_COUNT,
             !.lastDataLog = currentTime]
     ELSE st

(***************************************************************************)
(* Phase 6: joystick, motor, dashboard                                     *)
(***************************************************************************)
abs(x) == IF x < 0 THEN -x ELSE x

min(a, b) == IF a < b THEN a ELSE b

\* int arithmetic of the board: 16 bits, two's complement
int16(x) == ((x + 32768) % 65536) - 32768

\* Arduino map(): integer arithmetic, truncating division of a non-negative
\* numerator here
map(x, inMin, inMax, outMin, outMax) ==
  ((x - inMin) * (outMax - outMin)) \div (inMax - inMin) + outMin

readJoystick(st, joy) ==
  LET currentButtonState == joy.btn
      s1 == [st EXCEPT !.joystickX = joy.x, !.joystickY = joy.y]
      s2 == IF currentButtonState /\ ~s1.lastJoystickButtonState /\ ~s1.inConfigMenu
            THEN LET t == [s1 EXCEPT !.autoMode = ~@]
                 IN IF t.lcdInitialized THEN delay(t, 1000) ELSE t
            ELSE s1
  IN [s2 EXCEPT !.lastJoystickButtonState = currentButtonState,
                !.joystickButtonPressed = currentButtonState]

iterations(n) == IF n > 0 THEN n ELSE 0

stepMotor(st, steps, direction) ==
  IF st.motorMoving THEN st
  ELSE LET accelerationSteps == min(steps \div 4, 50)
           decelerationSteps == min(steps \div 4, 50)
           constantSteps == steps - accelerationSteps - decelerationSteps
           \* a for loop up to n runs n times, or not at all if n < 0
           moved == iterations(accelerationSteps) + iterations(constantSteps)
                      + iterations(decelerationSteps)
           \* delayMicroseconds(2000 / 1000 / 2000) after each single step
           ms == 2 * iterations(accelerationSteps) + iterations(constantSteps)
                   + 2 * iterations(decelerationSteps)
       IN [delay(st, ms) EXCEPT
             !.currentMotorPosition =
                int16(IF direction > 0 THEN @ + moved ELSE @ - moved),
             !.motorMoving = FALSE]

autoMotorMovement(st) ==
  LET currentTime == st.now
  IN IF ULSub(currentTime, st.lastAutoMotorMove) >= st.motorInterval /\ ~st.motorMoving
     THEN [stepMotor(st, STEPS_PER_90_DEGREES, 1) EXCEPT !.lastAutoMotorMove = currentTime]
     ELSE st

manualMotorControl(st) ==
  IF abs(st.joystickX - JOYSTICK_CENTER) > JOYSTICK_THRESHOLD /\ ~st.motorMoving
  THEN LET direction == IF st.joystickX > JOYSTICK_CENTER THEN 1 ELSE -1
           steps == map(abs(st.joystickX - JOYSTICK_CENTER), JOYSTICK_THRESHOLD, 512, 10, 50)
       IN stepMotor(st, steps, direction)
  ELSE st

controlStepperMotor(st) ==
  IF ~st.systemUnlocked
  THEN [st EXCEPT !.motorActive = FALSE]
  ELSE LET s1 == [st EXCEPT !.motorActive = TRUE]
       IN IF s1.autoMode THEN autoMotorMovement(s1) ELSE manualMotorControl(s1)

checkAlertConditions6(st) ==
  LET d == st.distance < st.distanceAlertThreshold /\ st.distance > 0
      w == st.waterLevel > st.waterAlertThreshold
      t == FLess(st.tempHighThreshold, st.temperature)
           \/ FLess(st.temperature, st.tempLowThreshold)
      h == FLess(st.humidityAlertThreshold, st.humidity)
  IN [st EXCEPT !.distanceAlert = d, !.waterAlert = w,
                !.temperatureAlert = t, !.humidityAlert = h,
                !.anyAlert = d \/ w \/ t \/ h]

updateLCDDisplay6(st) ==
  IF ~st.lcdInitialized \/ ~st.sensorDataValid
  THEN st
  ELSE [st EXCEPT !.currentDisplayScreen = (@ + 1) % 4]

handleCompleteDashboard(st, sens, joy) ==
  LET currentTime == st.now
      s0 == [st EXCEPT !.dashboardRan = TRUE]
      s1 == IF ULSub(currentTime, s0.lastSensorRead) >= SENSOR_READ_INTERVAL
            THEN [logSensorData(updateStatusLEDs(checkAlertConditions6(
                      readAllSensors(s0, sens))))
                    EXCEPT !.lastSensorRead = currentTime]
            ELSE s0
      s2 == IF ULSub(currentTime, s1.lastJoystickRead) >= 50
            THEN [readJoystick(s1, joy) EXCEPT !.lastJoystickRead = currentTime]
            ELSE s1
      s3 == controlStepperMotor(s2)
  IN IF ULSub(currentTime, s3.lastDisplayUpdate) >= DISPLAY_ROTATION_INTERVAL
     THEN [updateLCDDisplay6(s3) EXCEPT !.lastDisplayUpdate = currentTime]
     ELSE s3

(***************************************************************************)
(* Phase 6: configuration menu                                             *)
(***************************************************************************)
enterConfigurationMenu(st) ==
  LET s1 == [st EXCEPT !.inConfigMenu = TRUE, !.configMenuIndex = 0,
                       !.redLED = FALSE, !.greenLED = TRUE]
      s2 == [delay(s1, 1000) EXCEPT !.greenLED = FALSE]
      s3 == IF s2.lcdInitialized THEN delay(s2, 2000) ELSE s2
  IN [s3 EXCEPT !.lastSystemActivity = s3.now]

exitConfigMenu(st) ==
  LET s1 == [st EXCEPT !.inConfigMenu = FALSE, !.configMenuIndex = 0]
  IN IF s1.lcdInitialized THEN delay(s1, 2000) ELSE s1

\* the polling loop of changePasscode over the keys typed: the passcode
\* entered so far, whether a '*' accepted it, and the keys consumed
RECURSIVE typePasscode(_, _, _)
typePasscode(typed, newPasscode, polls) ==
  IF typed = <<>>
  THEN [pass |-> newPasscode, accepted |-> FALSE, polls |-> polls]
  ELSE LET key == Head(typed)
       IN IF key = "*" /\ Len(newPasscode) >= 4
          THEN [pass |-> newPasscode, accepted |-> TRUE, polls |-> polls]
          ELSE typePasscode(Tail(typed),
                 IF key = "*" THEN newPasscode
                 ELSE IF key = "#" THEN <<>>
                 ELSE IF Len(newPasscode) < MAX_PASSCODE_LENGTH - 1
                      THEN Append(newPasscode, key)
                      ELSE newPasscode,
                 polls + 1)

changePasscode(st, typed) ==
  LET r == typePasscode(typed, <<>>, 0)
  IN IF r.accepted
     THEN LET s1 == saveSettings([delay(st, 50 * r.polls)
                                    EXCEPT !.systemPasscode = r.pass \o <<"*">>])
          IN exitConfigMenu(IF s1.lcdInitialized THEN delay(s1, 2000) ELSE s1)
     ELSE exitConfigMenu(delay(st, 30000))      \* 30 second timeout

adjustSensorThresholds(st) ==
  exitConfigMenu(IF st.lcdInitialized THEN delay(st, 2000) ELSE st)

setMotorInterval(st) ==
  exitConfigMenu(IF st.lcdInitialized THEN delay(st, 2000) ELSE st)

resetToDefaults(st) ==
  LET s1 == saveSettings(
              [st EXCEPT !.distanceAlertThreshold = DISTANCE_ALERT_THRESHOLD,
                         !.waterAlertThreshold = WATER_ALERT_THRESHOLD,
                         !.tempHighThreshold = TEMP_HIGH_THRESHOLD,
                         !.tempLowThreshold = TEMP_LOW_THRESHOLD,
                         !.humidityAlertThreshold = HUMIDITY_ALERT_THRESHOLD,
                         !.motorInterval = AUTO_MOTOR_INTERVAL,
                         !.systemPasscode = DEFAULT_PASSCODE])
  IN exitConfigMenu(IF s1.lcdInitialized THEN delay(s1, 2000) ELSE s1)

selectConfigMenuItem(st, typed) ==
  CASE st.configMenuIndex = 0 -> changePasscode(st, typed)
    [] st.configMenuIndex = 1 -> adjustSensorThresholds(st)
    [] st.configMenuIndex = 2 -> setMotorInterval(st)
    [] st.configMenuIndex = 3 -> resetToDefaults(st)
    [] OTHER -> st

handleConfigurationMenu(st, joy, typed) ==
  LET s0 == [st EXCEPT !.menuRan = TRUE]
      s1 == readJoystick(s0, joy)
      s2 == IF s1.joystickButtonPressed /\ ~s1.lastJoystickButtonState
            THEN selectConfigMenuItem(s1, typed)
            ELSE s1
  IN IF abs(s2.joystickY - JOYSTICK_CENTER) > JOYSTICK_THRESHOLD
     THEN delay([s2 EXCEPT !.configMenuIndex =
                              IF s2.joystickY > JOYSTICK_CENTER
                              THEN (@ + 1) % 4
                              ELSE (@ - 1 + 4) % 4],
                200)
     ELSE s2

(***************************************************************************)
(* Phase 6: security state machine and loop()                              *)
(***************************************************************************)
grantAccess6(st) == grantAccess(st)

denyAccess6(st) == denyAccess(st)

handleLockout6(st) == handleLockout(st)

lockSystem6(st) ==
  LET s1 == [clearEntry([st EXCEPT !.systemUnlocked = FALSE, !.motorActive = FALSE])
               EXCEPT !.greenLED = FALSE, !.redLED = FALSE]
  IN IF s1.lcdInitialized THEN delay(s1, 2000) ELSE s1

checkPasscode6(st) ==
  clearEntry(IF st.enteredPasscode = st.systemPasscode
             THEN grantAccess6(st)
             ELSE IF st.enteredPasscode = CONFIG_PASSCODE
                  THEN enterConfigurationMenu(st)
                  ELSE denyAccess6(st))

handleKeypadInput6(st, k) ==
  LET s0 == [st EXCEPT !.key = k]
      s1 == IF k # NoKey
            THEN [s0 EXCEPT !.lastKeypadActivity = s0.now,
                            !.lastSystemActivity = s0.now]
            ELSE s0
      s2 == IF k = NoKey THEN s1
            ELSE IF k = "#" THEN clearEntry(s1)
            ELSE IF k = "*" THEN checkPasscode6(s1)
            ELSE IF Len(s1.enteredPasscode) < MAX_PASSCODE_LENGTH - 1
                 THEN [s1 EXCEPT !.enteredPasscode = Append(@, k)]
                 ELSE s1
  IN IF k # NoKey /\ s1.systemLockedOut
     THEN s1
     ELSE IF s2.enteredPasscode # <<>>
             /\ ULSub(s2.now, s2.lastKeypadActivity) > KEYPAD_TIMEOUT
          THEN clearEntry(s2)
          ELSE s2

handleAdvancedSystem(st, k, sens, joy, typed) ==
  LET currentTime == st.now
      s0 == [st EXCEPT !.currentTime = currentTime,
                       !.systemUptime = currentTime \div 1000]
      s1 == IF ULSub(currentTime, s0.lastSevenSegUpdate) >= SEVEN_SEG_UPDATE_INTERVAL
            THEN [s0 EXCEPT !.lastSevenSegUpdate = currentTime]
            ELSE s0
      s2 == handleKeypadInput6(s1, k)
  IN IF s2.systemLockedOut THEN handleLockout6(s2)
     ELSE IF s2.inConfigMenu THEN handleConfigurationMenu(s2, joy, typed)
     ELSE IF s2.systemUnlocked
             /\ ULSub(currentTime, s2.lastSystemActivity) > INACTIVITY_TIMEOUT
          THEN lockSystem6(s2)
     ELSE IF s2.systemUnlocked THEN handleCompleteDashboard(s2, sens, joy)
     ELSE s2       \* displayPasscodeEntry: LCD output only

loop6(st, dt, k, sens, joy, typed) ==
  LET s0 == [delay(st, dt) EXCEPT !.key = NoKey, !.dashboardRan = FALSE,
                                  !.menuRan = FALSE]
      s1 == IF ~s0.startupComplete
            THEN blinkStartup(s0)
            ELSE handleAdvancedSystem(s0, k, sens, joy, typed)
  IN IF s1.lcdInitialized /\ ~s1.lcdStartupComplete
     THEN handleLCDStartup(s1)
     ELSE s1

\* the globals after setup() on a board whose EEPROM holds image
setup6(image) ==
  LET globals ==
        [ f \in {"lastSevenSegUpdate", "lastAutoMotorMove", "lastJoystickRead",
                 "lastDataLog"} |-> 1000 ]
        @@ [ systemUptime |-> 0, inConfigMenu |-> FALSE, configMenuIndex |-> 0,
             motorActive |-> FALSE, autoMode |-> TRUE, currentMotorPosition |-> 0,
             motorMoving |-> FALSE,
             joystickX |-> 0, joystickY |-> 0, joystickButtonPressed |-> FALSE,
             lastJoystickButtonState |-> FALSE,
             distanceAlertThreshold |-> DISTANCE_ALERT_THRESHOLD,
             waterAlertThreshold |-> WATER_ALERT_THRESHOLD,
             tempHighThreshold |-> TEMP_HIGH_THRESHOLD,
             tempLowThreshold |-> TEMP_LOW_THRESHOLD,
             humidityAlertThreshold |-> HUMIDITY_ALERT_THRESHOLD,
             motorInterval |-> AUTO_MOTOR_INTERVAL,
             systemPasscode |-> DEFAULT_PASSCODE,
             dataLogIndex |-> 0, eeprom |-> image,
             menuRan |-> FALSE, logged |-> <<>> ]
  IN loadSettings(globals @@ setup)

(***************************************************************************)
(* Specification of phase 6                                                *)
(***************************************************************************)
Init6 ==
  /\ \E image \in EepromImages : p6 = setup6(image)
  /\ p1 = "off" /\ p2 = "off" /\ p3 = "off" /\ p4 = "off" /\ p5 = "off" /\ pa = "off"

\* readings of sensors and joystick that nothing reads
NoSensors == [nan |-> TRUE, temp |-> 0, hum |-> 0, dist |-> 999, water |-> 0]

NoJoystick == [x |-> 512, y |-> 512, btn |-> FALSE]

\* one call of loop(), dt ms after the previous call returned, with key k
\* waiting in the keypad; the inputs the call does not read are not
\* enumerated
Loop6 ==
  \E dt \in Elapsed, k \in Keys6 \cup {NoKey}, dash \in BOOLEAN, menu \in BOOLEAN :
    /\ p6.now + dt <= MaxTime
    /\ dash = loop6(p6, dt, k, NoSensors, NoJoystick, <<>>).dashboardRan
    /\ menu = loop6(p6, dt, k, NoSensors, NoJoystick, <<>>).menuRan
    /\ \E sens \in IF dash THEN SensorInputs ELSE {NoSensors},
          joy \in IF dash \/ menu THEN JoystickInputs ELSE {NoJoystick},
          typed \in IF menu THEN TypedInputs ELSE {<<>>} :
         p6' = loop6(p6, dt, k, sens, joy, typed)
    /\ UNCHANGED <<p1, p2, p3, p4, p5, pa>>

Next6 == Loop6

Spec6 == Init6 /\ [][Next6]_vars

(***************************************************************************)
(* Phase 6: the dashboard applied tick after tick (data logging)           *)
(***************************************************************************)
\* the dashboard is called until this many records are logged
MaxLogs == 11

\* time between two calls of handleCompleteDashboard; the sensors return
\* different readings until the first record is logged and fail afterwards
LogElapsed == {2500, 5000}

DashboardTick ==
  \E dt \in LogElapsed,
     sens \in IF p6.logged = <<>> THEN SensorInputs ELSE {NoSensors} :
    /\ Len(p6.logged) < MaxLogs
    /\ p6' = handleCompleteDashboard(delay(p6, dt), sens, NoJoystick)
    /\ UNCHANGED <<p1, p2, p3, p4, p5, pa>>

LogNext == DashboardTick

LogSpec == Init6 /\ [][LogNext]_vars

(***************************************************************************)
(* Phase 5: phase 4 security with the stepper motor and the joystick       *)
(***************************************************************************)
readJoystick5(st, joy) ==
  LET currentButtonState == joy.btn
      s1 == [st EXCEPT !.joystickX = joy.x, !.joystickY = joy.y]
      s2 == IF currentButtonState /\ ~s1.lastJoystickButtonState
            THEN LET t == [s1 EXCEPT !.autoMode = ~@]
                 IN IF t.lcdInitialized THEN delay(t, 1000) ELSE t
            ELSE s1
  IN [s2 EXCEPT !.lastJoystickButtonState = currentButtonState]

\* the field stepped tells that this loop() call moved the motor
stepMotor5(st, steps, direction) ==
  IF st.motorMoving THEN st
  ELSE [stepMotor(st, steps, direction) EXCEPT !.stepped = TRUE]

autoMotorMovement5(st) ==
  LET currentTime == st.now
  IN IF ULSub(currentTime, st.lastAutoMotorMove) >= AUTO_MOTOR_INTERVAL /\ ~st.motorMoving
     THEN [stepMotor5(st, STEPS_PER_90_DEGREES, 1) EXCEPT !.lastAutoMotorMove = currentTime]
     ELSE st

manualMotorControl5(st) ==
  IF abs(st.joystickX - JOYSTICK_CENTER) > JOYSTICK_THRESHOLD /\ ~st.motorMoving
  THEN LET direction == IF st.joystickX > JOYSTICK_CENTER THEN 1 ELSE -1
           steps == map(abs(st.joystickX - JOYSTICK_CENTER), JOYSTICK_THRESHOLD, 512, 10, 50)
       IN stepMotor5(st, steps, direction)
  ELSE st

controlStepperMotor5(st) ==
  IF ~st.systemUnlocked
  THEN [st EXCEPT !.motorActive = FALSE]
  ELSE LET s1 == [st EXCEPT !.motorActive = TRUE]
       IN IF s1.autoMode THEN autoMotorMovement5(s1) ELSE manualMotorControl5(s1)

handleCompleteDashboard5(st, sens, joy) ==
  LET currentTime == st.now
      s0 == [st EXCEPT !.dashboardRan = TRUE]
      s1 == IF ULSub(currentTime, s0.lastSensorRead) >= SENSOR_READ_INTERVAL
            THEN [updateStatusLEDs(checkAlertConditions(readAllSensors(s0, sens)))
                    EXCEPT !.lastSensorRead = currentTime]
            ELSE s0
      s2 == IF ULSub(currentTime, s1.lastJoystickRead) >= 50
            THEN [readJoystick5(s1, joy) EXCEPT !.lastJoystickRead = currentTime]
            ELSE s1
      s3 == controlStepperMotor5(s2)
  IN IF ULSub(currentTime, s3.lastDisplayUpdate) >= DISPLAY_ROTATION_INTERVAL
     THEN [updateLCDDisplay6(s3) EXCEPT !.lastDisplayUpdate = currentTime]
     ELSE s3

lockSystem5(st) == lockSystem6(st)

handleKeypadInput5(st, k) == handleKeypadInput(st, k)

handleCompleteSystem(st, k, sens, joy) ==
  LET currentTime == st.now
      s1 == handleKeypadInput5([st EXCEPT !.currentTime = currentTime], k)
  IN IF s1.systemLockedOut THEN handleLockout(s1)
     ELSE IF s1.systemUnlocked
             /\ ULSub(currentTime, s1.lastSystemActivity) > INACTIVITY_TIMEOUT
          THEN lockSystem5(s1)
     ELSE IF s1.systemUnlocked THEN handleCompleteDashboard5(s1, sens, joy)
     ELSE s1       \* displayPasscodeEntry: LCD output only

loop5(st, dt, k, sens, joy) ==
  LET s0 == [delay(st, dt) EXCEPT !.key = NoKey, !.dashboardRan = FALSE,
                                  !.stepped = FALSE]
      s1 == IF ~s0.startupComplete
            THEN blinkStartup(s0)
            ELSE handleCompleteSystem(s0, k, sens, joy)
  IN IF s1.lcdInitialized /\ ~s1.lcdStartupComplete
     THEN handleLCDStartup(s1)
     ELSE s1

setup5 ==
  [ f \in {"lastAutoMotorMove", "lastJoystickRead"} |-> 1000 ]
  @@ [ motorActive |-> FALSE, autoMode |-> TRUE, currentMotorPosition |-> 0,
       motorMoving |-> FALSE, joystickX |-> 0, joystickY |-> 0,
       joystickButtonPressed |-> FALSE, lastJoystickButtonState |-> FALSE,
       stepped |-> FALSE ]
  @@ setup

Init5 ==
  /\ p5 = setup5
  /\ p1 = "off" /\ p2 = "off" /\ p3 = "off" /\ p4 = "off" /\ p6 = "off" /\ pa = "off"

Loop5 ==
  \E dt \in Elapsed, k \in Keys \cup {NoKey}, dash \in BOOLEAN :
    /\ p5.now + dt <= MaxTime
    /\ dash = loop5(p5, dt, k, NoSensors, NoJoystick).dashboardRan
    /\ \E sens \in IF dash THEN SensorInputs ELSE {NoSensors},
          joy \in IF dash THEN JoystickInputs ELSE {NoJoystick} :
         p5' = loop5(p5, dt, k, sens, joy)
    /\ UNCHANGED <<p1, p2, p3, p4, p6, pa>>

Next5 == Loop5

Spec5 == Init5 /\ [][Next5]_vars

\* stepMotor on its own, called again and again from the state after
\* setup(): the quarter turn of the auto mode, and short moves in either
\* direction (10 to 50 steps come from the joystick; 0 and 3 are steps
\* counts below the four that give a ramp).  The fields steps, direction
\* and shortMoves are not globals of the sketch: they keep the arguments of
\* the last call and count the short moves.
StepCounts == {0, 3, 10, 50}
MaxShortMoves == 3
MaxTimeM == 40000

InitM ==
  /\ p5 = setup5 @@ [steps |-> 0, direction |-> 1, shortMoves |-> 0]
  /\ p1 = "off" /\ p2 = "off" /\ p3 = "off" /\ p4 = "off" /\ p6 = "off" /\ pa = "off"

StepMotorCall(steps, direction) ==
  /\ p5.now + 2 * steps <= MaxTimeM
  /\ p5' = [stepMotor5([p5 EXCEPT !.stepped = FALSE], steps, direction)
              EXCEPT !.steps = steps, !.direction = direction,
                     !.shortMoves = IF steps \in StepCounts THEN @ + 1 ELSE @]
  /\ UNCHANGED <<p1, p2, p3, p4, p6, pa>>

QuarterTurn == StepMotorCall(STEPS_PER_90_DEGREES, 1)

ShortMove ==
  \E steps \in StepCounts, direction \in {1, -1} :
    /\ p5.shortMoves < MaxShortMoves
    /\ StepMotorCall(steps, direction)

NextM == QuarterTurn \/ ShortMove

MotorSpec == InitM /\ [][NextM]_vars

(***************************************************************************)
(* Proximity alarm (phase 3): 7-segment display, HC-SR04, buzzer, mute     *)
(***************************************************************************)
displayInterval == 2
sensorInterval == 100

\* segment patterns of the digits 0..9
numbers == << 252, 96, 218, 242, 102, 182, 190, 224, 254, 246 >>

\* echo pulse widths in microseconds returned by pulseIn (0: timeout)
EchoInputs == {0, 60, 120, 300, 590, 650}

\* time between the start of one loop() call and the next
ElapsedA == {50, 100}

\* long dist = duration * 0.0343 / 2, truncated; 0 if no echo
measureDistance(duration) ==
  IF duration = 0 THEN 0 ELSE (duration * 343) \div 20000

break_number(st, num) ==
  [st EXCEPT !.digits = << num \div 1000, (num \div 100) % 10,
                           (num \div 10) % 10, num % 10 >>]

\* the field cathodes holds the levels of the pins CAS[0..3] (TRUE: HIGH,
\* digit off), the field segments the pattern in the shift register
cathode_high(st) == [st EXCEPT !.cathodes = <<TRUE, TRUE, TRUE, TRUE>>]

\* mutant: the digits are not switched off before the next one is lit
display_number_NoBlank(st) ==
  [st EXCEPT !.segments = numbers[st.digits[st.count + 1] + 1],
             !.cathodes[st.count + 1] = FALSE,
             !.count = IF st.count + 1 = 4 THEN 0 ELSE st.count + 1]

display_number(st) ==
  LET s1 == cathode_high(st)
  IN [s1 EXCEPT !.segments = numbers[s1.digits[s1.count + 1] + 1],
                !.cathodes[s1.count + 1] = FALSE,
                !.count = IF s1.count + 1 = 4 THEN 0 ELSE s1.count + 1]

toggleMute(st) ==
  LET s1 == [st EXCEPT !.muteEnabled = ~@]
  IN IF s1.muteEnabled
     THEN [s1 EXCEPT !.buzzerPin = FALSE, !.buzzerState = FALSE]
     ELSE s1

readMuteButton(st, pressed) ==
  LET buttonPressed == pressed
      s1 == IF buttonPressed /\ ~st.lastButtonState THEN toggleMute(st) ELSE st
  IN [s1 EXCEPT !.lastButtonState = buttonPressed]

\* mutant: the interval falls as the distance grows
handleCarBackupBuzzer_Reversed(st) ==
  IF st.muteEnabled
  THEN [st EXCEPT !.buzzerState = FALSE, !.buzzerPin = FALSE]
  ELSE IF st.distance <= 10 /\ st.distance >= 2
       THEN LET interval == map(st.distance, 2, 10, 800, 100)
            IN [st EXCEPT !.buzzerInterval = IF interval < 100 THEN 100 ELSE interval,
                          !.buzzerState = ~@,
                          !.buzzerPin = ~st.buzzerState]
       ELSE IF st.distance < 2 /\ st.distance > 0
            THEN [st EXCEPT !.buzzerPin = TRUE, !.buzzerState = TRUE]
            ELSE [st EXCEPT !.buzzerState = FALSE, !.buzzerPin = FALSE,
                            !.buzzerInterval = 200]

handleCarBackupBuzzer(st) ==
  IF st.muteEnabled
  THEN [st EXCEPT !.buzzerState = FALSE, !.buzzerPin = FALSE]
  ELSE IF st.distance <= 10 /\ st.distance >= 2
       THEN LET interval == map(st.distance, 2, 10, 100, 800)
            IN [st EXCEPT !.buzzerInterval = IF interval < 100 THEN 100 ELSE interval,
                          !.buzzerState = ~@,
                          !.buzzerPin = ~st.buzzerState]
       ELSE IF st.distance < 2 /\ st.distance > 0
            THEN [st EXCEPT !.buzzerPin = TRUE, !.buzzerState = TRUE]
            ELSE [st EXCEPT !.buzzerState = FALSE, !.buzzerPin = FALSE,
                            !.buzzerInterval = 200]

\* the fields sensorRan, displayRan and buzzerRan tell which tasks this call ran
loopA(st, dt, pressed, duration) ==
  LET s0 == [delay(st, dt) EXCEPT !.sensorRan = FALSE, !.displayRan = FALSE,
                                  !.buzzerRan = FALSE]
      currentMillis == s0.now
      s1 == readMuteButton(s0, pressed)
      s2 == IF ULSub(currentMillis, s1.previousSensorMillis) >= sensorInterval
            THEN LET measured == measureDistance(duration)
                     d == IF measured > 9999 THEN 9999 ELSE measured
                 IN [break_number(s1, d) EXCEPT !.previousSensorMillis = currentMillis,
                                                !.distance = d,
                                                !.ledPin = (d <= 5),
                                                !.sensorRan = TRUE]
            ELSE s1
      s3 == IF ULSub(currentMillis, s2.previousDisplayMillis) >= displayInterval
            THEN [display_number(s2) EXCEPT !.previousDisplayMillis = currentMillis,
                                            !.displayRan = TRUE]
            ELSE s2
  IN IF ULSub(currentMillis, s3.previousBuzzerMillis) >= s3.buzzerInterval
     THEN [handleCarBackupBuzzer([s3 EXCEPT !.previousBuzzerMillis = currentMillis])
             EXCEPT !.buzzerRan = TRUE]
     ELSE s3

\* the globals after setup()
setupA ==
  [ now |-> 0, count |-> 0, digits |-> <<0, 0, 0, 0>>, distance |-> 0,
    buzzerState |-> FALSE, muteEnabled |-> FALSE, lastButtonState |-> TRUE,
    previousDisplayMillis |-> 0, previousSensorMillis |-> 0,
    previousBuzzerMillis |-> 0, buzzerInterval |-> 200,
    buzzerPin |-> FALSE, ledPin |-> FALSE, cathodes |-> <<TRUE, TRUE, TRUE, TRUE>>, segments |-> 0,
    sensorRan |-> FALSE, displayRan |-> FALSE, buzzerRan |-> FALSE ]

\* loop() is called until this many ms after boot
MaxTimeA == 1500

InitA ==
  /\ pa = setupA
  /\ p1 = "off" /\ p2 = "off" /\ p3 = "off" /\ p4 = "off" /\ p5 = "off" /\ p6 = "off"

LoopA ==
  \E dt \in ElapsedA, pressed \in BOOLEAN, sensor \in BOOLEAN :
    /\ pa.now + dt <= MaxTimeA
    /\ sensor = loopA(pa, dt, pressed, 0).sensorRan
    /\ \E duration \in IF sensor THEN EchoInputs ELSE {0} :
         pa' = loopA(pa, dt, pressed, duration)
    /\ UNCHANGED <<p1, p2, p3, p4, p5, p6>>

NextA == LoopA

SpecA == InitA /\ [][NextA]_vars

\* The display of the alarm: loop() calls that follow each other within the
\* same ms or 2 ms apart, so that the display task is seen both skipping a
\* call and lighting one digit after the other; the echo is at most the
\* 30000 us time-out of pulseIn.
ElapsedD == {0, 2, 100}
EchoInputsD == {0, 300, 7000, 29000}
MaxTimeD == 212

LoopAD ==
  \E dt \in ElapsedD, sensor \in BOOLEAN :
    /\ pa.now + dt <= MaxTimeD
    /\ sensor = loopA(pa, dt, FALSE, 0).sensorRan
    /\ \E duration \in IF sensor THEN EchoInputsD ELSE {0} :
         pa' = loopA(pa, dt, FALSE, duration)
    /\ UNCHANGED <<p1, p2, p3, p4, p5, p6>>

NextAD == LoopAD

SpecAD == InitA /\ [][NextAD]_vars

\* The alarm around the wrap of millis().  The run starts WrapLead ms before
\* the clock wraps, after a loop() call in which all three tasks were due
\* (the call after an echo time-out finds them so).  The fields run,
\* sinceSensor, sinceDisplay and sinceBuzzer are not globals of the sketch:
\* they count the ms since the start of the run and since the loop() call
\* in which each task last fired, without wrapping.
WrapLead == 175
MaxRunW == 400
ElapsedW == {0, 50, 100}
EchoInputsW == {0, 120, 590}

sinceFields == [run |-> 0, sinceSensor |-> 0, sinceDisplay |-> 0, sinceBuzzer |-> 0]

stamp(before, after, dt) ==
  after @@ [run |-> before.run + dt,
            sinceSensor |-> IF after.sensorRan THEN 0 ELSE before.sinceSensor + dt,
            sinceDisplay |-> IF after.displayRan THEN 0 ELSE before.sinceDisplay + dt,
            sinceBuzzer |-> IF after.buzzerRan THEN 0 ELSE before.sinceBuzzer + dt]

alarmOf(st) == [f \in DOMAIN setupA |-> st[f]]

InitAW ==
  /\ pa = loopA([setupA EXCEPT !.now = ClockMod - WrapLead - 1000], 1000, FALSE, 0)
            @@ sinceFields
  /\ p1 = "off" /\ p2 = "off" /\ p3 = "off" /\ p4 = "off" /\ p5 = "off" /\ p6 = "off"

LoopAW ==
  \E dt \in ElapsedW, pressed \in BOOLEAN, sensor \in BOOLEAN :
    /\ pa.run + dt <= MaxRunW
    /\ sensor = loopA(alarmOf(pa), dt, pressed, 0).sensorRan
    /\ \E duration \in IF sensor THEN EchoInputsW ELSE {0} :
         pa' = stamp(pa, loopA(alarmOf(pa), dt, pressed, duration), dt)
    /\ UNCHANGED <<p1, p2, p3, p4, p5, p6>>

NextAW == LoopAW

SpecAW == InitAW /\ [][NextAW]_vars

(***************************************************************************)
(* Phase 1: LED blink                                                      *)
(***************************************************************************)
BLINK_INTERVAL == 500
serialUpdateInterval == 500

\* time a loop() call takes beyond its delay(10) (serial output)
Elapsed1 == {0, 100}

\* time from reset to the end of setup()
SetupTime1 == {0, 40}

\* mutant: the LED changes without the time of the change being kept
blinkLED_NoStamp(st) ==
  LET currentTime == st.now
  IN IF ULSub(currentTime, st.previousBlinkTime) >= BLINK_INTERVAL
     THEN [st EXCEPT !.ledState = ~@, !.ledPin = ~st.ledState]
     ELSE st

blinkLED(st) ==
  LET currentTime == st.now
  IN IF ULSub(currentTime, st.previousBlinkTime) >= BLINK_INTERVAL
     THEN [st EXCEPT !.ledState = ~@, !.ledPin = ~st.ledState,
                     !.previousBlinkTime = currentTime]
     ELSE st

\* updateSerial() only prints
loop1(st, dt) ==
  LET s0 == delay(st, dt)
      currentTime == s0.now
      s1 == blinkLED(s0)
      s2 == IF ULSub(currentTime, s1.lastSerialUpdate) >= serialUpdateInterval
            THEN [s1 EXCEPT !.lastSerialUpdate = currentTime]
            ELSE s1
  IN delay(s2, 10)

\* the globals after setup(), which took t ms
setup1(t) ==
  [ now |-> t, ledState |-> FALSE, ledPin |-> FALSE, previousBlinkTime |-> 0,
    startTime |-> 0, lastSerialUpdate |-> 0 ]

\* loop() is called until this many ms after boot
MaxTime1 == 2500

Init1 ==
  /\ \E t \in SetupTime1 : p1 = setup1(t)
  /\ p2 = "off" /\ p3 = "off" /\ p4 = "off" /\ p5 = "off" /\ p6 = "off" /\ pa = "off"

Loop1 ==
  \E dt \in Elapsed1 :
    /\ p1.now + dt + 10 <= MaxTime1
    /\ p1' = loop1(p1, dt)
    /\ UNCHANGED <<p2, p3, p4, p5, p6, pa>>

Next1 == Loop1

Spec1 == Init1 /\ [][Next1]_vars

\* loop() is called again and again
LiveSpec1 == Spec1 /\ WF_vars(Loop1)

(***************************************************************************)
(* Phase 2: button, LED and buzzer                                         *)
(***************************************************************************)
BUZZER_BEEP_DURATION == 200

\* time a loop() call takes beyond its delay(10) (serial output)
Elapsed2 == {0, 100}

toggleLED(st) == [st EXCEPT !.ledState = ~@, !.ledPin = ~st.ledState]

triggerBuzzer(st) ==
  [st EXCEPT !.buzzerPin = TRUE, !.buzzerActive = TRUE, !.lastBeepTime = st.now]

\* mutant: the LED follows the level of the button, not its edge
readButton_Level(st, pressed) ==
  LET buttonPressed == pressed
      s1 == IF buttonPressed THEN triggerBuzzer(toggleLED(st)) ELSE st
  IN [s1 EXCEPT !.lastButtonState = buttonPressed, !.pressed = pressed]

\* the field pressed keeps the sample read by this call
readButton(st, pressed) ==
  LET buttonPressed == pressed
      s1 == IF buttonPressed /\ ~st.lastButtonState
            THEN triggerBuzzer(toggleLED(st))
            ELSE st
  IN [s1 EXCEPT !.lastButtonState = buttonPressed, !.pressed = pressed]

handleBuzzer(st) ==
  IF st.buzzerActive /\ ULSub(st.now, st.lastBeepTime) >= BUZZER_BEEP_DURATION
  THEN [st EXCEPT !.buzzerPin = FALSE, !.buzzerActive = FALSE]
  ELSE st

loop2(st, dt, pressed) ==
  delay(handleBuzzer(readButton(delay(st, dt), pressed)), 10)

\* the globals after setup()
setup2 ==
  [ now |-> 0, ledState |-> FALSE, ledPin |-> FALSE, lastButtonState |-> TRUE,
    startTime |-> 0, lastBeepTime |-> 0, buzzerActive |-> FALSE,
    buzzerPin |-> FALSE, pressed |-> FALSE ]

\* loop() is called until this many ms after boot
MaxTime2 == 600

Init2 ==
  /\ p2 = setup2
  /\ p1 = "off" /\ p3 = "off" /\ p4 = "off" /\ p5 = "off" /\ p6 = "off" /\ pa = "off"

Loop2 ==
  \E dt \in Elapsed2, pressed \in BOOLEAN :
    /\ p2.now + dt + 10 <= MaxTime2
    /\ p2' = loop2(p2, dt, pressed)
    /\ UNCHANGED <<p1, p3, p4, p5, p6, pa>>

Next2 == Loop2

Spec2 == Init2 /\ [][Next2]_vars

(***************************************************************************)
(* Phase 3: sensor dashboard (the dashboard functions of phase 4 are       *)
(* copies of the ones of this sketch)                                      *)
(***************************************************************************)
Elapsed3 == {100, 500}

\* mutant: a failed DHT read overwrites the stored values
readAllSensors3_Overwrite(st, sens) ==
  [st EXCEPT !.temperature = sens.temp, !.humidity = sens.hum,
             !.distance = sens.dist, !.waterLevel = sens.water,
             !.sensorDataValid = TRUE]

readAllSensors3(st, sens) ==
  LET s1 == IF ~sens.nan
            THEN [st EXCEPT !.temperature = sens.temp, !.humidity = sens.hum]
            ELSE st
  IN [s1 EXCEPT !.distance = sens.dist,
                !.waterLevel = sens.water,
                !.sensorDataValid = TRUE]

\* the field sensorRan tells that this call has read the sensors
handleSensorDashboard3(st, sens) ==
  LET currentTime == st.now
      s1 == IF ULSub(currentTime, st.lastSensorRead) >= SENSOR_READ_INTERVAL
            THEN [updateStatusLEDs(checkAlertConditions(readAllSensors3(st, sens)))
                    EXCEPT !.lastSensorRead = currentTime, !.sensorRan = TRUE]
            ELSE st
  IN IF ULSub(currentTime, s1.lastDisplayUpdate) >= DISPLAY_ROTATION_INTERVAL
     THEN [updateLCDDisplay(s1) EXCEPT !.lastDisplayUpdate = currentTime,
                                       !.displayRan = TRUE]
     ELSE s1

\* the field sample keeps what the sensors returned to this call
loop3(st, dt, sens) ==
  LET s0 == [delay(st, dt) EXCEPT !.sensorRan = FALSE, !.displayRan = FALSE,
                                  !.sample = sens]
      s1 == IF ~s0.startupComplete
            THEN blinkStartup(s0)
            ELSE handleSensorDashboard3(s0, sens)
  IN IF s1.lcdInitialized /\ ~s1.lcdStartupComplete
     THEN handleLCDStartup(s1)
     ELSE s1

\* the globals after setup(); initializeLCD() has blocked for 1000 ms
setup3 ==
  [ now |-> 1000,
    startupComplete |-> FALSE, startupBlinkCount |-> 0, lastStartupBlink |-> 1000,
    lastBlinkTime |-> 1000, greenLED |-> FALSE, redLED |-> FALSE,
    lcdInitialized |-> TRUE, lcdStartupComplete |-> FALSE, lcdStartupTime |-> 1000,
    currentDisplayScreen |-> 0, lastDisplayUpdate |-> 1000,
    temperature |-> 0, humidity |-> 0, distance |-> 0, waterLevel |-> 0,
    sensorDataValid |-> FALSE,
    distanceAlert |-> FALSE, waterAlert |-> FALSE, temperatureAlert |-> FALSE,
    humidityAlert |-> FALSE, anyAlert |-> FALSE,
    lastSensorRead |-> 1000,
    \* observations of the last loop() call, not globals of the sketch
    sensorRan |-> FALSE, displayRan |-> FALSE, sample |-> NoSensors ]

\* loop() is called until this many ms after boot
MaxTime3 == 6500

Init3 ==
  /\ p3 = setup3
  /\ p1 = "off" /\ p2 = "off" /\ p4 = "off" /\ p5 = "off" /\ p6 = "off" /\ pa = "off"

\* the sensors are sampled only in a loop() call that reads them
Loop3 ==
  \E dt \in Elapsed3, tick \in BOOLEAN :
    /\ p3.now + dt <= MaxTime3
    /\ tick = loop3(p3, dt, NoSensors).sensorRan
    /\ \E sens \in IF tick THEN SensorInputs ELSE {NoSensors} :
         p3' = loop3(p3, dt, sens)
    /\ UNCHANGED <<p1, p2, p4, p5, p6, pa>>

Next3 == Loop3

Spec3 == Init3 /\ [][Next3]_vars

(***************************************************************************)
(* Phase 4 properties                                                      *)
(***************************************************************************)
\* this step is a loop() call that ran handleSecuritySystem
SecurityTick == p4' # p4 /\ p4.startupComplete

\* C1: from the locked, not-locked-out state, the entry "1234" confirmed
\* with '*' (the documented passcode "1234*") unlocks the system and counts
\* no failed attempt.
C1_DocumentedPasscodeGrants ==
  [][ ( /\ p4.startupComplete
        /\ ~p4.systemUnlocked /\ ~p4.systemLockedOut
        /\ p4.enteredPasscode = <<"1", "2", "3", "4">>
        /\ p4'.key = "*" )
      => ( p4'.systemUnlocked /\ p4'.failedAttempts <= p4.failedAttempts ) ]_vars

\* C2: failedAttempts stays in 0..MAX_FAILED_ATTEMPTS, the system is locked
\* out exactly while failedAttempts = MAX_FAILED_ATTEMPTS, lockout is entered
\* exactly by the '*' confirmation of a wrong entry (one other than the
\* documented "1234") that follows two counted failures, and confirming the
\* documented passcode resets failedAttempts to 0.
C2_Counter ==
  /\ p4.failedAttempts \in 0..MAX_FAILED_ATTEMPTS
  /\ p4.systemLockedOut <=> (p4.failedAttempts = MAX_FAILED_ATTEMPTS)

C2_LockoutTrigger ==
  /\ [] C2_Counter
  /\ [][ (~p4.systemLockedOut /\ p4'.systemLockedOut)
          <=> ( /\ p4.startupComplete /\ ~p4.systemLockedOut
                /\ p4'.key = "*"
                /\ p4.enteredPasscode # <<"1", "2", "3", "4">>
                /\ p4.failedAttempts = MAX_FAILED_ATTEMPTS - 1 ) ]_vars
  /\ [][ ( /\ p4.startupComplete /\ ~p4.systemLockedOut
            /\ p4.enteredPasscode = <<"1", "2", "3", "4">>
            /\ p4'.key = "*" )
          => p4'.failedAttempts = 0 ]_vars

\* C3: a lockout ends only in a handleSecuritySystem call made at least
\* LOCKOUT_DURATION after lockoutStartTime, it ends with failedAttempts = 0,
\* and every lockout whose LOCKOUT_DURATION fits into the modelled time ends.
C3_InHorizon ==
  p4.lockoutStartTime + LOCKOUT_DURATION + KEYPAD_TIMEOUT <= MaxTime

C3_Lockout ==
  /\ [][ (p4.systemLockedOut /\ ~p4'.systemLockedOut)
          => ( /\ ULSub(p4'.currentTime, p4.lockoutStartTime) >= LOCKOUT_DURATION
               /\ p4'.failedAttempts = 0 ) ]_vars
  /\ (p4.systemLockedOut /\ C3_InHorizon)
        ~> (~p4.systemLockedOut /\ p4.failedAttempts = 0)

C3_Witness ==
  /\ ~p4.systemLockedOut /\ p4.lockoutStartTime > 0 /\ C3_InHorizon
  /\ ULSub(p4.currentTime, p4.lockoutStartTime) = LOCKOUT_DURATION

\* C4: the system relocks only after more than INACTIVITY_TIMEOUT without
\* activity: it is unlocked at the end of the loop() call in which the
\* documented passcode was confirmed or a key was pressed while unlocked, and
\* an unlocked system is locked by the first call made after the timeout.
C4_InactivityRelock ==
  /\ [][ ( /\ p4.startupComplete /\ ~p4.systemLockedOut
            /\ p4.enteredPasscode = <<"1", "2", "3", "4">>
            /\ p4'.key = "*" )
          => p4'.systemUnlocked ]_vars
  /\ [][ (SecurityTick /\ p4.systemUnlocked /\ p4'.key # NoKey)
          => p4'.systemUnlocked ]_vars
  /\ [][ (SecurityTick /\ p4.systemUnlocked /\ p4'.key = NoKey)
          => ( p4'.systemUnlocked
               <=> ULSub(p4'.currentTime, p4.lastSystemActivity)
                     <= INACTIVITY_TIMEOUT ) ]_vars

\* C5: the sketch is locked after setup, and a loop() call that leaves the
\* system locked or locked out has not run the sensor dashboard: readings,
\* alert flags, display screen and the dashboard timers are unchanged.
SensorView(st) ==
  << st.temperature, st.humidity, st.distance, st.waterLevel, st.sensorDataValid,
     st.distanceAlert, st.waterAlert, st.temperatureAlert, st.humidityAlert,
     st.anyAlert, st.currentDisplayScreen, st.lastSensorRead, st.lastDisplayUpdate >>

C5_SensorsHidden ==
  /\ [] (~p4.startupComplete => ~p4.systemUnlocked)
  /\ [][ (~p4'.systemUnlocked \/ p4'.systemLockedOut)
          => ( ~p4'.dashboardRan /\ SensorView(p4') = SensorView(p4) ) ]_vars

\* a locked handleSecuritySystem call at which both dashboard timers are due
C5_Witness ==
  /\ p4.startupComplete /\ ~p4.systemUnlocked /\ p4.currentTime = p4.now
  /\ ULSub(p4.currentTime, p4.lastSensorRead) >= SENSOR_READ_INTERVAL
  /\ ULSub(p4.currentTime, p4.lastDisplayUpdate) >= DISPLAY_ROTATION_INTERVAL

\* C6: during lockout the entry is empty, the red LED is on and the green
\* LED off, and a loop() call that reads a key changes neither the entry nor
\* systemUnlocked, nor failedAttempts as long as the lockout lasts.
C6_LockoutIgnoresKeys ==
  /\ [] ( p4.systemLockedOut
           => (p4.enteredPasscode = <<>> /\ p4.redLED /\ ~p4.greenLED) )
  /\ [][ (p4.systemLockedOut /\ p4'.key # NoKey)
          => ( /\ p4'.enteredPasscode = p4.enteredPasscode
               /\ p4'.systemUnlocked = p4.systemUnlocked
               /\ ( p4'.systemLockedOut
                     => p4'.failedAttempts = p4.failedAttempts ) ) ]_vars

C6_Witness ==
  p4.systemLockedOut /\ p4.key \in {"1", "*", "#"} /\ p4.lastKeypadActivity = p4.now

\* C7: a non-empty entry is emptied by the first handleKeypadInput call made
\* more than KEYPAD_TIMEOUT after the last key press (at most the key read by
\* that call is in the entry afterwards), and a call made KEYPAD_TIMEOUT or
\* less after the last key press that reads no key leaves the entry alone.
C7_AutoClear ==
  /\ [][ ( /\ SecurityTick /\ p4.enteredPasscode # <<>>
            /\ ULSub(p4'.currentTime, p4.lastKeypadActivity) > KEYPAD_TIMEOUT )
          => Len(p4'.enteredPasscode) <= 1 ]_vars
  /\ [][ ( /\ SecurityTick /\ p4.enteredPasscode # <<>> /\ p4'.key = NoKey
            /\ ULSub(p4'.currentTime, p4.lastKeypadActivity) <= KEYPAD_TIMEOUT )
          => p4'.enteredPasscode = p4.enteredPasscode ]_vars

\* C8: outside lockout a '*' leaves the entry empty, and when the entry
\* differs from the passcode it adds exactly one to failedAttempts and leaves
\* systemUnlocked as it was.
C8_WrongPasscode ==
  [][ (p4.startupComplete /\ ~p4.systemLockedOut /\ p4'.key = "*")
      => ( /\ p4'.enteredPasscode = <<>>
           /\ ( p4.enteredPasscode # DEFAULT_PASSCODE
                 => ( /\ p4'.failedAttempts = p4.failedAttempts + 1
                      /\ p4'.systemUnlocked = p4.systemUnlocked ) ) ) ]_vars

C8_Witness ==
  p4.key = "*" /\ p4.failedAttempts = 2 /\ p4.enteredPasscode = <<>>

\* C9: outside lockout a '#' empties the entry and leaves failedAttempts,
\* systemUnlocked and systemLockedOut as they were.
C9_HashClears ==
  [][ (p4.startupComplete /\ ~p4.systemLockedOut /\ p4'.key = "#")
      => ( /\ p4'.enteredPasscode = <<>>
           /\ p4'.failedAttempts = p4.failedAttempts
           /\ p4'.systemUnlocked = p4.systemUnlocked
           /\ p4'.systemLockedOut = p4.systemLockedOut ) ]_vars

C9_Witness ==
  p4.key = "#" /\ p4.failedAttempts = 2 /\ ~p4.systemLockedOut

(***************************************************************************)
(* Phase 6 properties                                                      *)
(***************************************************************************)
\* C10: from the locked, not-locked-out state, the entry "9999" confirmed
\* with '*' (the special code "9999*") opens the configuration menu and
\* counts no failed attempt.
C10_ConfigCodeOpensMenu ==
  [][ ( /\ p6.startupComplete
        /\ ~p6.systemUnlocked /\ ~p6.systemLockedOut
        /\ p6.enteredPasscode = <<"9", "9", "9", "9">>
        /\ p6'.key = "*" )
      => ( p6'.inConfigMenu /\ p6'.failedAttempts <= p6.failedAttempts ) ]_vars

SettingsOf(st) ==
  << st.distanceAlertThreshold, st.waterAlertThreshold, st.tempHighThreshold,
     st.tempLowThreshold, st.humidityAlertThreshold, st.motorInterval,
     st.systemPasscode >>

SettingsInRange(st) ==
  /\ st.distanceAlertThreshold \in 1..100
  /\ st.waterAlertThreshold \in 1..1023
  /\ st.tempHighThreshold \in 0..50
  /\ st.tempLowThreshold \in -20..30
  /\ st.humidityAlertThreshold \in 0..100
  /\ st.motorInterval \in 500..10000

C12_SaveLoadRoundTrip ==
  SettingsInRange(p6)
    => SettingsOf(loadSettings(saveSettings(p6))) = SettingsOf(p6)

\* C13: the n-th logged record (n = 0, 1, ...) is put at address
\* EEPROM_DATA_START + EEPROM_DATA_SIZE * (n mod EEPROM_DATA_COUNT), so the
\* slots hold the most recent min(n, 10) records; dataLogIndex is in 0..9;
\* records overlap neither each other nor the settings bytes 0..28; two
\* logs are at least 5000 ms apart; a record holds the time and the readings
\* of the call that logged it.
SlotAddress(n) == EEPROM_DATA_START + EEPROM_DATA_SIZE * (n % EEPROM_DATA_COUNT)

C13_Slots ==
  LET n == Len(p6.logged)
      log == p6.eeprom.log
  IN /\ p6.dataLogIndex \in 0..(EEPROM_DATA_COUNT - 1)
     /\ p6.dataLogIndex = n % EEPROM_DATA_COUNT
     /\ DOMAIN log = { SlotAddress(k) : k \in 0..(n - 1) }
     /\ \A k \in 0..(n - 1) :
          k >= n - EEPROM_DATA_COUNT => log[SlotAddress(k)] = p6.logged[k + 1]
     /\ \A a \in DOMAIN log :
          /\ a > 28
          /\ \A b \in DOMAIN log : a # b => abs(a - b) >= SENSOR_DATA_SIZE
     /\ \A k \in 1..(n - 1) :
          ULSub(p6.logged[k + 1].timestamp, p6.logged[k].timestamp) >= 5000

C14_MotorGating ==
  /\ [] (p5.motorActive => p5.systemUnlocked)
  /\ [][ p5'.stepped => (p5'.systemUnlocked /\ ~p5'.systemLockedOut) ]_vars
  /\ [][ ( /\ p5.startupComplete /\ ~p5.systemUnlocked /\ ~p5.systemLockedOut
            /\ p5.enteredPasscode = <<"1", "2", "3", "4">>
            /\ p5'.key = "*" )
          => p5'.systemUnlocked ]_vars
  /\ [][ p5'.dashboardRan => p5'.motorActive ]_vars

(***************************************************************************)
(* Proximity alarm properties                                              *)
(***************************************************************************)
\* the interval handleCarBackupBuzzer sets, not muted, at distance d
IntervalAt(st, d) ==
  handleCarBackupBuzzer([st EXCEPT !.distance = d, !.muteEnabled = FALSE]).buzzerInterval

\* C15 as stated: after every call of handleCarBackupBuzzer the interval is
\* in 100..800 for a distance in 2..10 and 200 for every other distance.
C15_IntervalAlwaysSet ==
  [][ pa'.buzzerRan
      => IF pa'.distance \in 2..10
         THEN pa'.buzzerInterval \in 100..800
         ELSE pa'.buzzerInterval = 200 ]_vars

\* C15 (amended): when the alarm is not muted, the interval set for a
\* distance d in 2..10 is 100 at 2 and 800 at 10, strictly smaller for a
\* smaller distance and within 100..800; for a distance above 10 or no echo
\* (0) it is reset to 200.  At distance 1 (continuous tone) and whenever the
\* alarm is muted the interval is left as it was.
C15_BeepCadence ==
  /\ [] ( /\ IntervalAt(pa, 2) = 100 /\ IntervalAt(pa, 10) = 800
          /\ \A d \in 2..10 : IntervalAt(pa, d) \in 100..800
          /\ \A d \in 2..9 : IntervalAt(pa, d) < IntervalAt(pa, d + 1) )
  /\ [][ pa'.buzzerRan
         => /\ (~pa'.muteEnabled /\ pa'.distance \in 2..10)
                 => pa'.buzzerInterval = IntervalAt(pa, pa'.distance)
            /\ (~pa'.muteEnabled /\ (pa'.distance > 10 \/ pa'.distance = 0))
                 => pa'.buzzerInterval = 200
            /\ (pa'.muteEnabled \/ pa'.distance = 1)
                 => pa'.buzzerInterval = pa.buzzerInterval ]_vars

\* the buzzer task ran, not muted, on a distance of 2 cm measured in the same call
C15_Witness ==
  /\ pa.buzzerRan /\ ~pa.muteEnabled /\ pa.distance = 2
  /\ pa.buzzerInterval = 100 /\ pa.sensorRan

(***************************************************************************)
(* Phase 2 properties                                                      *)
(***************************************************************************)
\* C16: the LED is off after setup; a loop() call whose button sample is
\* pressed after a released previous sample inverts ledState and leaves the
\* buzzer beeping; every other call leaves ledState alone; the LED pin
\* always shows ledState.
C16_ButtonToggles ==
  /\ [] ( /\ p2.ledPin = p2.ledState
          /\ p2.now = 0 => ~p2.ledState )
  /\ [][ IF p2'.pressed /\ ~p2.lastButtonState
         THEN /\ p2'.ledState = ~p2.ledState
              /\ p2'.buzzerActive /\ p2'.buzzerPin
              /\ p2'.lastBeepTime = p2'.now - 10
         ELSE p2'.ledState = p2.ledState ]_vars

\* a second press has switched the LED off again and started a beep
C16_Witness ==
  /\ ~p2.ledState /\ p2.pressed /\ p2.buzzerActive
  /\ p2.lastBeepTime = p2.now - 10

(***************************************************************************)
(* Phase 1 properties                                                      *)
(***************************************************************************)
\* a loop() call that starts here finds the next change of the LED still
\* inside the time the model runs
C17_InHorizon == p1.now + BLINK_INTERVAL + 250 <= MaxTime1

\* C17: a change of ledState comes at least BLINK_INTERVAL ms after the
\* previous one (after boot for the first) and inverts the state; the LED
\* pin always equals ledState; while loop() keeps being called the LED
\* changes again, whatever its state.
C17_Blink ==
  /\ [] (p1.ledPin = p1.ledState)
  /\ [][ p1'.ledState # p1.ledState
           => /\ p1'.ledState = ~p1.ledState
              /\ ULSub(p1'.previousBlinkTime, p1.previousBlinkTime) >= BLINK_INTERVAL
              /\ p1'.previousBlinkTime = p1'.now - 10 ]_vars
  /\ [][ p1'.previousBlinkTime # p1.previousBlinkTime
           => p1'.ledState # p1.ledState ]_vars
  /\ \A b \in BOOLEAN :
       (C17_InHorizon /\ p1.ledState = b) ~> (p1.ledState # b)

\* the LED has gone on and off again, each time 500 ms or more after the
\* change before
C17_Witness ==
  /\ ~p1.ledState /\ p1.previousBlinkTime >= 2 * BLINK_INTERVAL
  /\ p1.now = p1.previousBlinkTime + 10

(***************************************************************************)
(* Button bounce                                                           *)
(***************************************************************************)
\* C18: with the mute button released at the previous sample, three
\* consecutive loop() calls that sample it pressed, released, pressed (one
\* bouncing press) change the mute state once.
C18_Debounced ==
  ~pa.lastButtonState
    => \A dt \in ElapsedA :
         LET s1 == loopA(pa, dt, TRUE, 0)
             s2 == loopA(s1, dt, FALSE, 0)
             s3 == loopA(s2, dt, TRUE, 0)
         IN s3.muteEnabled = ~pa.muteEnabled

\* the same burst at the button of the phase 2 sketch changes the LED once
C18_DebouncedLED ==
  ~p2.lastButtonState
    => LET s1 == loop2(p2, 0, TRUE)
           s2 == loop2(s1, 0, FALSE)
           s3 == loop2(s2, 0, TRUE)
       IN s3.ledState = ~p2.ledState

(***************************************************************************)
(* Phase 3 properties                                                      *)
(***************************************************************************)
\* C19: a sensor tick whose DHT read fails keeps the stored temperature and
\* humidity and still stores the new distance and water level; a tick whose
\* DHT read succeeds stores the new temperature and humidity, whatever
\* happened at the ticks before; and the dashboard reads the sensors exactly
\* when SENSOR_READ_INTERVAL ms have passed since the last read, failed or
\* not.
C19_SkipAndRetry ==
  /\ [][ (p3'.sensorRan /\ p3'.sample.nan)
           => /\ p3'.temperature = p3.temperature
              /\ p3'.humidity = p3.humidity
              /\ p3'.distance = p3'.sample.dist
              /\ p3'.waterLevel = p3'.sample.water ]_vars
  /\ [][ (p3'.sensorRan /\ ~p3'.sample.nan)
           => /\ p3'.temperature = p3'.sample.temp
              /\ p3'.humidity = p3'.sample.hum
              /\ p3'.distance = p3'.sample.dist
              /\ p3'.waterLevel = p3'.sample.water ]_vars
  /\ [][ p3.startupComplete
           => (p3'.sensorRan
                 <=> ULSub(p3'.now, p3.lastSensorRead) >= SENSOR_READ_INTERVAL) ]_vars

\* a failed read after a good one: the good temperature is still stored,
\* the distance is the one of the failed cycle
C19_Witness ==
  /\ p3.sensorRan /\ p3.sample.nan
  /\ p3.temperature = 35 /\ p3.humidity = 90
  /\ p3.distance = 999 /\ p3.waterLevel = 0

(***************************************************************************)
(* Timers across the wrap of millis()                                      *)
(***************************************************************************)
\* C20: in every loop() call, also when millis() has wrapped since a task
\* last fired, each task (sensor, display, buzzer) fires exactly when the
\* ms that really passed since its last firing reach its interval: never
\* sooner, and at the first call at or after the interval.  A task that
\* fires sets its own timestamp to the sampled millis(); the timestamp of a
\* task that does not fire is left alone.
C20_TimersAcrossWrap ==
  [][ LET dt == pa'.run - pa.run
      IN /\ pa'.sensorRan <=> pa.sinceSensor + dt >= sensorInterval
         /\ pa'.displayRan <=> pa.sinceDisplay + dt >= displayInterval
         /\ pa'.buzzerRan <=> pa.sinceBuzzer + dt >= pa.buzzerInterval
         /\ pa'.previousSensorMillis =
              IF pa'.sensorRan THEN pa'.now ELSE pa.previousSensorMillis
         /\ pa'.previousDisplayMillis =
              IF pa'.displayRan THEN pa'.now ELSE pa.previousDisplayMillis
         /\ pa'.previousBuzzerMillis =
              IF pa'.buzzerRan THEN pa'.now ELSE pa.previousBuzzerMillis ]_vars

\* the clock has wrapped; the buzzer task has just fired, its firing before
\* was before the wrap, and the sensor task did not fire in this call
C20_Witness ==
  /\ pa.run > WrapLead /\ pa.now < pa.buzzerInterval
  /\ pa.buzzerRan /\ ~pa.sensorRan
  /\ pa.previousSensorMillis > pa.now

(***************************************************************************)
(* Display multiplexing                                                    *)
(***************************************************************************)
\* the digits whose cathode is low
Lit(st) == {i \in 0..3 : ~st.cathodes[i + 1]}

\* C21: at most one of the four cathodes is low; the digit counter is in
\* 0..3 and every stored digit, hence every index into numbers, is in 0..9;
\* a loop() call that runs display_number lights exactly the digit the
\* counter pointed at, with the pattern of that digit's value, and moves the
\* counter on by one modulo 4, so the digits are lit in the order
\* 0,1,2,3,0,...; a call that does not run it leaves cathodes and counter
\* alone.
C21_Multiplexing ==
  /\ [] ( /\ Cardinality(Lit(pa)) <= 1
          /\ pa.count \in 0..3
          /\ \A i \in 1..4 : pa.digits[i] \in 0..9
          /\ pa.distance \in 0..9999 )
  /\ [][ IF pa'.displayRan
         THEN /\ Lit(pa') = {pa.count}
              /\ pa'.count = (pa.count + 1) % 4
              /\ pa'.segments = numbers[pa'.digits[pa.count + 1] + 1]
         ELSE /\ pa'.cathodes = pa.cathodes
              /\ pa'.count = pa.count ]_vars

\* the fourth digit of 497 cm is lit and the counter is back at 0
C21_Witness ==
  /\ pa.displayRan /\ Lit(pa) = {3} /\ pa.count = 0
  /\ pa.digits = <<0, 4, 9, 7>> /\ pa.segments = numbers[8]

(***************************************************************************)
(* Stepper profile                                                         *)
(***************************************************************************)
\* the phases of a call of stepMotor: acceleration and deceleration of
\* min(steps/4, 50) steps at 2 ms a step, the rest at 1 ms a step
RampSteps(steps) == min(steps \div 4, 50)

\* what stepMotor does apart from the value of the position
C22_Phases ==
  [][ p5'.stepped
        => LET ramp == RampSteps(p5'.steps)
               constant == p5'.steps - 2 * ramp
           IN /\ constant >= 0
              /\ ULSub(p5'.now, p5.now) = 2 * ramp + constant + 2 * ramp
              /\ ~p5'.motorMoving ]_vars

C22_ProfileInt16 ==
  /\ C22_Phases
  /\ [] ~p5.motorMoving
  /\ [][ p5'.stepped
           => p5'.currentMotorPosition
                = int16(p5.currentMotorPosition + p5'.steps * p5'.direction) ]_vars

=============================================================================
